---- MODULE Spec2Model ----
(***************************************************************************)
(* State-machine model of the chat-bot core of the repository: the         *)
(* messageCreate dispatcher, the prefix and profile synchronisation        *)
(* (server/bot), the command registry (server/bot/commands), the routes of *)
(* server/routes.ts (settings, bot-profile, commands, logs, analytics,     *)
(* status) and the bot_settings, commands and command_logs tables of       *)
(* server/storage (PostgresStorage, and the settings of MemStorage).       *)
(*                                                                         *)
(* Strings the code inspects character by character (message content, the *)
(* prefix, command names) are sequences of one-character strings; strings  *)
(* the code only copies (names, avatars, error texts) are atoms.           *)
(*                                                                         *)
(* Every `await` of the code is a point where other events interleave, so  *)
(* each handler is cut into one action per await.  A storage read and the  *)
(* synchronous continuation that consumes it are one action; a storage or  *)
(* platform write and the continuation after it are separate actions when  *)
(* the continuation touches process-wide state (commandPrefix).            *)
(***************************************************************************)
EXTENDS Integers, Sequences, FiniteSets, TLC

\* ------------------------------------------------------------------ bounds
MaxMessages == 2
MaxRequests == 2
MaxRows == 3
MaxTime == 1
MaxCommandId == 4

Msgs == 1..MaxMessages
Reqs == 1..MaxRequests

\* ----------------------------------------------------------------- strings
SP == " "
TAB == "TAB"

\* String.prototype.trim strips every white-space character.
IsWhite(c) == c \in {SP, TAB}

\* A prefix test that compares lengths only.
StartsWithAnything(s, p) == Len(p) <= Len(s)

\* String.prototype.startsWith: literal comparison, position by position.
RECURSIVE StartsWithFrom(_, _, _)
StartsWithFrom(s, p, i) ==
  IF i > Len(p) THEN TRUE
  ELSE IF i > Len(s) THEN FALSE
  ELSE IF s[i] # p[i] THEN FALSE
  ELSE StartsWithFrom(s, p, i + 1)

StartsWith(s, p) == StartsWithFrom(s, p, 1)

\* String.prototype.slice(n): drops the first n characters.
Slice(s, n) == IF n >= Len(s) THEN <<>> ELSE SubSeq(s, n + 1, Len(s))

RECURSIVE TrimLeft(_)
TrimLeft(s) ==
  IF s = <<>> THEN <<>>
  ELSE IF IsWhite(Head(s)) THEN TrimLeft(Tail(s))
  ELSE s

RECURSIVE TrimRight(_)
TrimRight(s) ==
  IF s = <<>> THEN <<>>
  ELSE IF IsWhite(s[Len(s)]) THEN TrimRight(SubSeq(s, 1, Len(s) - 1))
  ELSE s

\* A trim that strips nothing.
NoTrim(s) == s

Trim(s) == TrimRight(TrimLeft(s))

\* String.prototype.split(/ +/): cuts at every run of SPACE characters (and of
\* nothing else); the empty string splits into one empty token.
\* SplitFrom(s, i, cur, out) scans s from position i, cur is the token being
\* read and out the tokens finished so far.
RECURSIVE SplitFrom(_, _, _, _)
SplitFrom(s, i, cur, out) ==
  IF i > Len(s) THEN Append(out, cur)
  ELSE IF s[i] = SP
       THEN IF i > 1 /\ s[i - 1] = SP
            THEN SplitFrom(s, i + 1, cur, out)
            ELSE SplitFrom(s, i + 1, <<>>, Append(out, cur))
       ELSE SplitFrom(s, i + 1, Append(cur, s[i]), out)

SplitSpaces(s) == SplitFrom(s, 1, <<>>, <<>>)

\* String.prototype.toLowerCase on the alphabet of the model.
LowerChar(c) ==
  CASE c = "P" -> "p"
    [] c = "I" -> "i"
    [] c = "N" -> "n"
    [] c = "G" -> "g"
    [] c = "A" -> "a"
    [] OTHER -> c

\* A lower-casing that keeps the case.
KeepCase(s) == s

ToLowerCase(s) == [i \in 1..Len(s) |-> LowerChar(s[i])]

\* --------------------------------------------------------------- registry
\* The commands array of loadCommands: helpCommand, pingCommand, infoCommand.
Commands ==
  << [ name |-> <<"h", "e", "l", "p">>, handler |-> "helpCommand" ],
     [ name |-> <<"p", "i", "n", "g">>, handler |-> "pingCommand" ],
     [ name |-> <<"i", "n", "f", "o">>, handler |-> "infoCommand" ] >>

\* Map.prototype.set on a Map held as its set of entries: the entry of the
\* key is replaced when there is one, added otherwise.
MapSet(map, key, value) ==
  { e \in map : e.name # key } \cup { [ name |-> key, handler |-> value ] }

\* Map.prototype.get: the entries under the key (none or one).
MapGet(map, key) == { e \in map : e.name = key }

\* loadCommands: commandsMap.set(command.name, command) for each command of
\* the array in order, keyed by command.name as written.
RECURSIVE LoadCommandsFrom(_, _, _)
LoadCommandsFrom(list, i, map) ==
  IF i > Len(list) THEN map
  ELSE LoadCommandsFrom(list, i + 1, MapSet(map, list[i].name, list[i].handler))

LoadCommands(list) == LoadCommandsFrom(list, 1, {})

\* ------------------------------------------------------------ bot_settings
\* Column defaults of the bot_settings table.
ColumnDefaults ==
  [ prefix |-> <<"!">>,
    botName |-> "Discord Bot",
    botAvatar |-> "null",
    commandNotFoundMessage |-> "notfound-default",
    logErrors |-> TRUE,
    displayErrorsToUsers |-> TRUE,
    showDetailedErrors |-> FALSE ]

\* The row initializeDatabase inserts when the table is empty.
DefaultSettings ==
  [ prefix |-> <<"!">>,
    botName |-> "Xtaly's Bot",
    botAvatar |-> "null",
    commandNotFoundMessage |-> "notfound-default",
    logErrors |-> TRUE,
    displayErrorsToUsers |-> TRUE,
    showDetailedErrors |-> FALSE ]

SettingsFields ==
  { "prefix", "botName", "botAvatar", "commandNotFoundMessage",
    "logErrors", "displayErrorsToUsers", "showDetailedErrors" }

\* ------------------------------------------------------------------ state
VARIABLES
  tokenSet,       \* process.env.DISCORD_TOKEN is set
  boot,           \* position of initBot
  client,         \* client && client.user: the bot is logged in
  commandList,    \* the commands array loadCommands registers
  commands,       \* the registry Map of the bot module (its entries)
  commandPrefix,  \* the module-level prefix of the bot
  presence,       \* activity name last passed to setPresence
  botSettings,    \* the bot_settings table, rows in id order
  settingsSerial, \* the SERIAL of bot_settings.id
  commandLogs,    \* the command_logs table, rows in insertion order
  commandsTable,  \* the commands table, rows in insertion order
  commandsSerial, \* the SERIAL of commands.id
  clock,          \* now() of the database when rows are inserted
  disp,           \* one messageCreate invocation per inbound message
  lookups,        \* command names passed to commands.get, in order
  replies,        \* message.reply calls of the dispatcher that succeeded
  req,            \* one HTTP request handler invocation per request
  username,       \* the bot's username live on the platform
  avatar,         \* the bot's avatar live on the platform
  nicknames       \* per guild, the bot's nickname live on the platform

vars ==
  << tokenSet, boot, client, commandList, commands, commandPrefix, presence,
     botSettings,
     settingsSerial, commandLogs, commandsTable, commandsSerial, clock, disp,
     lookups, replies, req, username, avatar, nicknames >>

botVars ==
  << tokenSet, boot, client, commandList, commands, commandPrefix, presence >>
commandVars == << commandsTable, commandsSerial >>
storeVars == << botSettings, settingsSerial, commandLogs, commandVars, clock >>
platformVars == << username, avatar, nicknames >>

Guilds == { "g1", "g2" }

\* storage.getBotSettings: result[0] of an unordered select, as a sequence of
\* no row or one row.
GetBotSettings == IF botSettings = <<>> THEN <<>> ELSE << botSettings[1] >>

\* What one call of storage.getBotSettings may return: the select has no
\* ORDER BY, so with several rows result[0] is any of them.
SelectBotSettings ==
  IF botSettings = <<>> THEN { <<>> }
  ELSE { << botSettings[i] >> : i \in DOMAIN botSettings }

\* ---------------------------------------------------------------- messages
PING == <<"p", "i", "n", "g">>

Contents ==
  { <<"!">> \o PING,             \* a registered command
    <<"!", "x">>,                \* an unknown command
    <<"?">> \o PING,             \* the same command under another prefix
    PING,                        \* no prefix
    <<"!">>,                     \* the prefix alone
    <<"!", SP>> \o PING }        \* a space after the prefix

Messages ==
  { [bot |-> FALSE, content |-> c] : c \in Contents }
    \cup { [bot |-> TRUE, content |-> <<"!">> \o PING] }

HandlerErrors == { "boom" }

NoEntry == [ command |-> <<>>, isError |-> FALSE, kind |-> "none", detail |-> "" ]

IdleDispatch ==
  [ pc |-> "idle", bot |-> FALSE, content |-> <<>>, name |-> <<>>,
    args |-> <<>>, found |-> FALSE, entry |-> NoEntry, audit |-> "none", branch |-> "none",
    error |-> "", settings |-> <<>>, errorLog |-> "none", reply |-> <<>>,
    escaped |-> FALSE, listed |-> FALSE ]

\* A Partial<InsertBotSettings>: `has` are the keys whose value is not
\* undefined, `val` their values (the column default stands in for the rest).
Partial(has, val) ==
  [ has |-> has,
    val |-> [ f \in SettingsFields |-> IF f \in has THEN val[f] ELSE ColumnDefaults[f] ] ]

NoPartial == Partial({}, ColumnDefaults)

\* JavaScript truthiness of the botName / botAvatar key of a partial
\* (undefined, null and the empty string are falsy).
Truthy(p, f) == f \in p.has /\ p.val[f] \notin { "", "null" }

\* JavaScript truthiness of the prefix key of a partial.
TruthyPrefix(p) == "prefix" \in p.has /\ p.val.prefix # <<>>

IdleRequest ==
  [ pc |-> "idle", route |-> "none", admin |-> FALSE, valid |-> TRUE,
    body |-> NoPartial,
    upd |-> NoPartial, ret |-> "none", existing |-> 0, result |-> <<>>,
    settings |-> <<>>, read |-> <<>>, latest |-> FALSE, opt |-> NoPartial,
    called |-> FALSE, query |-> <<>>, logs |-> <<>>, now |-> 0,
    activity |-> <<>>, commandCount |-> 0,
    nameOk |-> TRUE, nameError |-> "", avatarOk |-> TRUE, pending |-> {},
    persisted |-> FALSE, success |-> "none", status |-> 0, warning |-> "" ]

\* The greatest timestamp of a command_logs table, 0 for an empty one.
LastStamp(logs) ==
  IF logs = <<>> THEN 0
  ELSE CHOOSE t \in { logs[i].timestamp : i \in DOMAIN logs } :
         \A i \in DOMAIN logs : logs[i].timestamp <= t

InitTables(rows, list, logs) ==
  /\ tokenSet \in BOOLEAN
  /\ commandList = list
  /\ boot = "start"
  /\ client = FALSE
  /\ commands = {}
  /\ commandPrefix = <<"!">>
  /\ presence = <<>>
  /\ botSettings = rows
  /\ settingsSerial = Len(rows)
  /\ commandLogs = logs
  /\ commandsTable = <<>>
  /\ commandsSerial = 0
  /\ clock = LastStamp(logs)
  /\ disp = [ d \in Msgs |-> IdleDispatch ]
  /\ lookups = <<>>
  /\ replies = <<>>
  /\ req = [ r \in Reqs |-> IdleRequest ]
  /\ username = "bot"
  /\ avatar = "null"
  /\ nicknames = [ g \in Guilds |-> "bot" ]

InitState(rows, list) == InitTables(rows, list, <<>>)

InitWith(rows) == InitState(rows, Commands)

\* A bot_settings table left by an earlier run: empty, or one row with any
\* error policy and one of two prefixes, or one row with a not-found message
\* of the operator's own.
StoredRows ==
  { <<>> } \cup
  { << [ DefaultSettings EXCEPT !.prefix = px, !.logErrors = le,
           !.displayErrorsToUsers = de, !.showDetailedErrors = sd ]
         @@ [ id |-> 1 ] >> : px \in { <<"!">>, <<"?">> }, le, de, sd \in BOOLEAN }
    \cup
  { << [ DefaultSettings EXCEPT !.commandNotFoundMessage = "Try !help" ]
         @@ [ id |-> 1 ] >> }

Init == \E rows \in StoredRows : InitWith(rows)

\* ------------------------------------------------------------------ initBot
\* initBot without DISCORD_TOKEN: logs and returns; registerRoutes goes on to
\* register the routes with no client and an untouched database.
InitBotNoToken ==
  /\ boot = "start"
  /\ ~tokenSet
  /\ boot' = "serving"
  /\ UNCHANGED << tokenSet, client, commandList, commands, commandPrefix, presence,
                  storeVars, disp, lookups, replies, req, platformVars >>

\* The names of the default commands initializeDatabase creates.
DefaultCommands ==
  << <<"h", "e", "l", "p">>, <<"p", "i", "n", "g">>, <<"i", "n", "f", "o">> >>

\* initializeDatabase, the commands and the bot_settings part: create the
\* default commands when the commands table is empty; select the settings,
\* and insert the default row when the select returned none.
InitializeDatabase ==
  /\ boot = "start"
  /\ tokenSet
  /\ IF commandsTable = <<>>
     THEN /\ commandsTable' =
               [ i \in DOMAIN DefaultCommands |->
                   [ id |-> commandsSerial + i, name |-> DefaultCommands[i],
                     enabled |-> TRUE ] ]
          /\ commandsSerial' = commandsSerial + Len(DefaultCommands)
     ELSE UNCHANGED commandVars
  /\ IF GetBotSettings = <<>>
     THEN /\ botSettings' =
               Append(botSettings, DefaultSettings @@ [ id |-> settingsSerial + 1 ])
          /\ settingsSerial' = settingsSerial + 1
     ELSE UNCHANGED << botSettings, settingsSerial >>
  /\ boot' = "initialized"
  /\ UNCHANGED << tokenSet, client, commandList, commands, commandPrefix, presence,
                  commandLogs, clock, disp, lookups, replies, req,
                  platformVars >>

\* The rest of initBot: read the settings into commandPrefix, load the
\* commands, log in; the ready handler sets the presence.
InitBotLogin ==
  /\ boot = "initialized"
  /\ \E settings \in SelectBotSettings :
       commandPrefix' =
         IF settings # <<>> THEN settings[1].prefix ELSE commandPrefix
  /\ commands' = LoadCommands(commandList)
  /\ client' = TRUE
  /\ presence' = commandPrefix' \o <<"h", "e", "l", "p">>
  /\ boot' = "serving"
  /\ UNCHANGED << tokenSet, commandList, storeVars, disp, lookups, replies,
                  req, platformVars >>

Serving == boot = "serving"

\* ------------------------------------------------------- the dispatcher
\* Lines 64-65 of the listener: slice the prefix off, trim, split, shift the
\* first token and lower-case it.
Tokens(content, prefix) == SplitSpaces(Trim(Slice(content, Len(prefix))))
CommandName(content, prefix) == ToLowerCase(Head(Tokens(content, prefix)))
Args(content, prefix) == Tail(Tokens(content, prefix))

\* The filter of the listener: not a bot author, content starts with the prefix.
PassesFilter(m, prefix) == ~m.bot /\ StartsWith(m.content, prefix)

\* An audit entry whose isError is inverted.
AuditEntryInverted(prefix, name, found) ==
  [ command |-> prefix \o name,
    isError |-> found,
    kind |-> IF found THEN "executed" ELSE "unknown",
    detail |-> "" ]

\* The object handed to storage.createCommandLog before execution.
AuditEntry(prefix, name, found) ==
  [ command |-> prefix \o name,
    isError |-> ~found,
    kind |-> IF found THEN "executed" ELSE "unknown",
    detail |-> "" ]

\* The object handed to storage.createCommandLog in the catch block.
ErrorEntry(prefix, name, error) ==
  [ command |-> prefix \o name, isError |-> TRUE, kind |-> "error",
    detail |-> error ]

\* createCommandLog: the row the insert adds for message d.
LogRow(d, entry) ==
  [ id |-> Len(commandLogs) + 1, timestamp |-> clock, userId |-> d,
    command |-> entry.command,
    isError |-> entry.isError, isWarning |-> FALSE, kind |-> entry.kind,
    detail |-> entry.detail ]

GenericError == "There was an error executing that command!"

\* An error reply that always carries the raw error text.
ErrorReplyDetailed(settings, error) ==
  << GenericError, " Error: ", error >>

\* The reply of the catch block.
ErrorReply(settings, error) ==
  IF settings[1].showDetailedErrors
  THEN << GenericError, " Error: ", error >>
  ELSE << GenericError >>

\* Some enabled row of table `rows` carries `name`.
EnabledIn(rows, name) ==
  \E i \in DOMAIN rows : rows[i].name = name /\ rows[i].enabled

\* A listener that looks the command up among the enabled rows of the
\* commands table.
MessageCreateFromTable(d, m) ==
  /\ Serving /\ client
  /\ disp[d].pc = "idle"
  /\ \A e \in Msgs : e < d => disp[e].pc # "idle"
  /\ LET name == CommandName(m.content, commandPrefix)
         found == EnabledIn(commandsTable, name)
         got == [ disp[d] EXCEPT !.bot = m.bot, !.content = m.content ]
     IN
       IF ~PassesFilter(m, commandPrefix) \/ name = <<>>
       THEN /\ disp' = [ disp EXCEPT ![d] = [ got EXCEPT !.pc = "ignored" ] ]
            /\ UNCHANGED lookups
       ELSE /\ disp' = [ disp EXCEPT ![d] =
                 [ got EXCEPT !.pc = "audit", !.name = name,
                     !.args = Args(m.content, commandPrefix), !.found = found,
                     !.listed = EnabledIn(commandsTable, name),
                     !.entry = AuditEntry(commandPrefix, name, found) ] ]
            /\ lookups' = Append(lookups, name)
  /\ UNCHANGED << botVars, storeVars, replies, req, platformVars >>

\* messageCreate up to its first await: filter, tokenize, look the command up
\* and start the audit write.  (`listed` records whether the commands table
\* held an enabled row of that name at the lookup; the listener never reads
\* it.)
MessageCreate(d, m) ==
  /\ Serving /\ client
  /\ disp[d].pc = "idle"
  /\ \A e \in Msgs : e < d => disp[e].pc # "idle"
  /\ LET name == CommandName(m.content, commandPrefix)
         found == MapGet(commands, name) # {}
         got == [ disp[d] EXCEPT !.bot = m.bot, !.content = m.content ]
     IN
       IF ~PassesFilter(m, commandPrefix) \/ name = <<>>
       THEN /\ disp' = [ disp EXCEPT ![d] = [ got EXCEPT !.pc = "ignored" ] ]
            /\ UNCHANGED lookups
       ELSE /\ disp' = [ disp EXCEPT ![d] =
                 [ got EXCEPT !.pc = "audit", !.name = name,
                     !.args = Args(m.content, commandPrefix), !.found = found,
                     !.listed = EnabledIn(commandsTable, name),
                     !.entry = AuditEntry(commandPrefix, name, found) ] ]
            /\ lookups' = Append(lookups, name)
  /\ UNCHANGED << botVars, storeVars, replies, req, platformVars >>

\* Locals of the listener that no later line of it reads are reset, so that
\* states differing only in dead locals coincide.
Forget(rec) == [ rec EXCEPT !.bot = FALSE, !.content = <<>>, !.entry = NoEntry ]
Finish(rec) ==
  [ Forget(rec) EXCEPT !.pc = "done", !.name = <<>>, !.args = <<>>,
      !.reply = <<>> ]

\* What the listener does once the audit try/catch is left.
AfterAudit(rec) ==
  IF ~rec.found
  THEN [ Forget(rec) EXCEPT !.pc = "notfound", !.branch = "notfound" ]
  ELSE [ Forget(rec) EXCEPT !.pc = "execute", !.branch = "execute" ]

\* The audit insert succeeds.
AuditLogged(d) ==
  /\ disp[d].pc = "audit"
  /\ commandLogs' = Append(commandLogs, LogRow(d, disp[d].entry))
  /\ disp' = [ disp EXCEPT ![d] = AfterAudit([ @ EXCEPT !.audit = "ok" ]) ]
  /\ UNCHANGED << botVars, botSettings, settingsSerial, commandVars, clock,
                  lookups, replies, req, platformVars >>

\* A listener whose audit insert is awaited outside any try block.
AuditFailedAborts(d) ==
  /\ disp[d].pc = "audit"
  /\ disp' = [ disp EXCEPT ![d] =
       [ Finish(@) EXCEPT !.audit = "failed", !.escaped = TRUE ] ]
  /\ UNCHANGED << botVars, storeVars, lookups, replies, req, platformVars >>

\* The audit insert rejects; the catch logs to the console.
AuditFailed(d) ==
  /\ disp[d].pc = "audit"
  /\ disp' = [ disp EXCEPT ![d] = AfterAudit([ @ EXCEPT !.audit = "failed" ]) ]
  /\ UNCHANGED << botVars, storeVars, lookups, replies, req, platformVars >>

\* A not-found branch that answers whatever displayErrorsToUsers says.
NotFoundSettingsAlwaysReplies(d) ==
  /\ disp[d].pc = "notfound"
  /\ \E settings \in SelectBotSettings :
       disp' = [ disp EXCEPT ![d] =
         IF settings # <<>>
         THEN [ @ EXCEPT !.pc = "reply",
                  !.reply = << settings[1].commandNotFoundMessage >> ]
         ELSE Finish(@) ]
  /\ UNCHANGED << botVars, storeVars, lookups, replies, req, platformVars >>

\* Not-found branch: the settings read resolves.
NotFoundSettings(d) ==
  /\ disp[d].pc = "notfound"
  /\ \E settings \in SelectBotSettings :
       disp' = [ disp EXCEPT ![d] =
         IF settings # <<>> /\ settings[1].displayErrorsToUsers
         THEN [ @ EXCEPT !.pc = "reply",
                  !.reply = << settings[1].commandNotFoundMessage >> ]
         ELSE Finish(@) ]
  /\ UNCHANGED << botVars, storeVars, lookups, replies, req, platformVars >>

\* An awaited call outside any try block rejects (the settings read of the
\* not-found branch, or the settings read and the error-log insert of the
\* catch block): the rejection leaves the async listener.
AwaitRejects(d) ==
  /\ disp[d].pc \in { "notfound", "catch", "errorlog", "reply" }
  /\ disp' = [ disp EXCEPT ![d] =
       [ Finish(@) EXCEPT !.escaped = TRUE,
           !.errorLog = IF disp[d].pc = "errorlog" THEN "failed" ELSE @ ] ]
  /\ UNCHANGED << botVars, storeVars, lookups, replies, req, platformVars >>

\* message.reply of the dispatcher resolves.
Replied(d) ==
  /\ disp[d].pc = "reply"
  /\ replies' = Append(replies, [ to |-> d, text |-> disp[d].reply ])
  /\ disp' = [ disp EXCEPT ![d] = Finish(@) ]
  /\ UNCHANGED << botVars, storeVars, lookups, req, platformVars >>

\* command.execute resolves.
HandlerReturns(d) ==
  /\ disp[d].pc = "execute"
  /\ disp' = [ disp EXCEPT ![d] = Finish(@) ]
  /\ UNCHANGED << botVars, storeVars, lookups, replies, req, platformVars >>

\* command.execute rejects with error e: the catch block starts its settings read.
HandlerThrows(d, e) ==
  /\ disp[d].pc = "execute"
  /\ disp' = [ disp EXCEPT ![d] = [ @ EXCEPT !.pc = "catch", !.error = e ] ]
  /\ UNCHANGED << botVars, storeVars, lookups, replies, req, platformVars >>

\* The catch block from "Reply with error message" on.
ReplyWithError(rec) ==
  IF rec.settings # <<>> /\ rec.settings[1].displayErrorsToUsers
  THEN [ rec EXCEPT !.pc = "reply", !.entry = NoEntry,
           !.reply = ErrorReply(rec.settings, rec.error) ]
  ELSE Finish(rec)

\* A catch block that logs the error whatever logErrors says.
CatchSettingsAlwaysLogs(d) ==
  /\ disp[d].pc = "catch"
  /\ \E settings \in SelectBotSettings :
       LET rec == [ disp[d] EXCEPT !.settings = settings ] IN
       disp' = [ disp EXCEPT ![d] =
         [ rec EXCEPT !.pc = "errorlog",
             !.entry = ErrorEntry(commandPrefix, rec.name, rec.error) ] ]
  /\ UNCHANGED << botVars, storeVars, lookups, replies, req, platformVars >>

\* Catch block: the settings read resolves.
CatchSettings(d) ==
  /\ disp[d].pc = "catch"
  /\ \E settings \in SelectBotSettings :
       LET rec == [ disp[d] EXCEPT !.settings = settings ] IN
       disp' = [ disp EXCEPT ![d] =
         IF settings # <<>> /\ settings[1].logErrors
         THEN [ rec EXCEPT !.pc = "errorlog",
                  !.entry = ErrorEntry(commandPrefix, rec.name, rec.error) ]
         ELSE ReplyWithError(rec) ]
  /\ UNCHANGED << botVars, storeVars, lookups, replies, req, platformVars >>

\* Catch block: the error-log insert resolves.
ErrorLogged(d) ==
  /\ disp[d].pc = "errorlog"
  /\ commandLogs' = Append(commandLogs, LogRow(d, disp[d].entry))
  /\ disp' = [ disp EXCEPT ![d] = ReplyWithError([ @ EXCEPT !.errorLog = "ok" ]) ]
  /\ UNCHANGED << botVars, botSettings, settingsSerial, commandVars, clock,
                  lookups, replies, req, platformVars >>

Dispatch ==
  \E d \in Msgs :
    \/ \E m \in Messages : MessageCreate(d, m)
    \/ AuditLogged(d)
    \/ AuditFailed(d)
    \/ NotFoundSettings(d)
    \/ AwaitRejects(d)
    \/ Replied(d)
    \/ HandlerReturns(d)
    \/ \E e \in HandlerErrors : HandlerThrows(d, e)
    \/ CatchSettings(d)
    \/ ErrorLogged(d)

Boot == InitBotNoToken \/ InitializeDatabase \/ InitBotLogin

NextDispatch == Boot \/ Dispatch

SpecDispatch == Init /\ [][NextDispatch]_vars

\* ------------------------------------------- tokenizer and registry alone
\* Command arrays loadCommands may be given: the shipped one, one with the
\* same name twice, and one with two names that differ in case only.
CommandLists ==
  { Commands,
    << [ name |-> PING, handler |-> "pingCommand" ],
       [ name |-> PING, handler |-> "pongCommand" ] >>,
    << [ name |-> <<"P", "i", "n", "g">>, handler |-> "pingCommand" ],
       [ name |-> PING, handler |-> "pongCommand" ] >> }

\* Message contents that exercise the tokenizer: case variants of a command,
\* arguments after one space, several spaces and a tab, and contents that
\* hold nothing but the prefix and white space.
TokenContents ==
  { <<"!">> \o PING,
    <<"!", "P", "I", "N", "G">>,
    <<"!", "P", "i", "n", "g">>,
    <<"!">> \o PING \o <<SP, "A">>,
    <<"!">> \o PING \o <<SP, SP, "A", SP, "g">>,
    <<"!">> \o PING \o <<TAB, "A">>,
    <<"!", SP>> \o PING,
    <<"!", "x">>,
    <<"!">>,
    <<"!", SP>>,
    <<"!", TAB>>,
    <<"!", SP, TAB, SP>>,
    PING }

\* The listener without storage or platform failures, on those contents.
Lookup ==
  \E d \in Msgs :
    \/ \E c \in TokenContents : MessageCreate(d, [ bot |-> FALSE, content |-> c ])
    \/ AuditLogged(d)
    \/ NotFoundSettings(d)
    \/ Replied(d)
    \/ HandlerReturns(d)

NextLookup == Boot \/ Lookup

InitLookup ==
  \E list \in CommandLists : InitState(<< DefaultSettings @@ [ id |-> 1 ] >>, list)

SpecLookup == InitLookup /\ [][NextLookup]_vars

\* ------------------------------------------------------ storage (Postgres)
\* The row an insert of partial p creates: the column defaults under p.
InsertedRow(p, id) ==
  [ f \in SettingsFields |-> IF f \in p.has THEN p.val[f] ELSE ColumnDefaults[f] ]
    @@ [ id |-> id ]

\* An UPDATE that writes nothing.
UpdatedRowUntouched(row, p) == row

\* UPDATE ... SET p: the keys of p over the row, the rest of the row kept.
UpdatedRow(row, p) ==
  [ f \in DOMAIN row |-> IF f \in p.has THEN p.val[f] ELSE row[f] ]

\* ------------------------------------------------------------- the routes
NameTaken == "name taken"
AvatarRejected == "avatar rejected"
NotInitialized == "Bot client not initialized"
NoValues == "No values to set"

\* A route that answered a platform rejection with an error status.
ProfileReturnsAsError(rec, success, error) ==
  [ rec EXCEPT !.pc = "done", !.success = IF success THEN "true" ELSE "false",
      !.status = IF success THEN 200 ELSE 500, !.warning = "",
      !.pending = {}, !.existing = 0, !.result = <<>>, !.upd = NoPartial,
      !.ret = "none" ]

\* The route's response once updateBotProfile has returned { success, error }.
\* PATCH answers with the settings (plus a warning on failure); POST the same
\* statuses, after a settings read on success.
ProfileReturns(rec, success, error) ==
  [ rec EXCEPT !.pc = "done", !.success = IF success THEN "true" ELSE "false",
      !.status = 200, !.warning = IF success THEN "" ELSE error,
      !.pending = {}, !.existing = 0, !.result = <<>>, !.upd = NoPartial,
      !.ret = "none" ]

\* updateBotProfile, "Update database settings regardless of Discord API
\* updates": the call of storage.updateBotSettings with both option keys.
Persist(rec) ==
  [ rec EXCEPT !.pc = "select", !.ret = "profile", !.upd = rec.opt ]

\* updateBotProfile from "Update bot avatar if provided" up to its next await.
AvatarSection(rec) ==
  IF Truthy(rec.opt, "botAvatar")
  THEN [ rec EXCEPT !.pc = "setAvatar" ]
  ELSE Persist(rec)

\* updateBotProfile(opt) up to its first await.
UpdateBotProfile(rec, opt) ==
  LET called == [ rec EXCEPT !.called = TRUE, !.opt = opt, !.nameOk = TRUE,
                     !.nameError = "", !.avatarOk = TRUE ]
  IN
    IF ~client THEN ProfileReturns(called, FALSE, NotInitialized)
    ELSE IF Truthy(opt, "botName") THEN [ called EXCEPT !.pc = "setUsername" ]
    ELSE AvatarSection(called)

\* The options object both routes build: botName as given, a null botAvatar
\* replaced by undefined.
ProfileOptions(body) ==
  Partial({ f \in { "botName", "botAvatar" } :
              f \in body.has /\ ~(f = "botAvatar" /\ body.val[f] = "null") },
          body.val)

\* PATCH /api/settings from "If bot name or avatar is being updated" on.
PatchProfileSection(rec) ==
  IF Truthy(rec.body, "botName") \/ "botAvatar" \in rec.body.has
  THEN UpdateBotProfile(rec, ProfileOptions(rec.body))
  ELSE [ rec EXCEPT !.pc = "done", !.status = 200, !.existing = 0,
           !.result = <<>>, !.upd = NoPartial, !.ret = "none" ]

\* A response with an error status.
Fails(rec, status) ==
  [ rec EXCEPT !.pc = "done", !.status = status, !.existing = 0,
      !.result = <<>>, !.upd = NoPartial, !.ret = "none" ]

Arrives(r) ==
  /\ Serving
  /\ req[r].pc = "idle"
  /\ \A q \in Reqs : q < r => req[q].pc # "idle"

\* PATCH /api/settings up to its first await: parse the body and call
\* storage.updateBotSettings.
PatchSettings(r, body, valid) ==
  /\ Arrives(r)
  /\ req' = [ req EXCEPT ![r] =
       IF ~valid
       THEN Fails([ @ EXCEPT !.route = "patch", !.valid = FALSE ], 400)
       ELSE [ @ EXCEPT !.route = "patch", !.body = body, !.pc = "select",
                !.upd = body, !.ret = "route" ] ]
  /\ UNCHANGED << botVars, storeVars, disp, lookups, replies, platformVars >>

\* The admin check guarding POST /api/bot-profile.
EnsureAdmin(admin) == admin

\* POST /api/bot-profile up to its first await.
PostBotProfile(r, body, admin) ==
  /\ Arrives(r)
  /\ req' = [ req EXCEPT ![r] =
       LET rec == [ @ EXCEPT !.route = "post", !.body = body,
                      !.admin = EnsureAdmin(admin) ]
       IN
         IF ~EnsureAdmin(admin) THEN Fails([ rec EXCEPT !.body = NoPartial ], 403)
         ELSE IF ~Truthy(body, "botName") /\ ~Truthy(body, "botAvatar")
         THEN Fails(rec, 400)
         ELSE UpdateBotProfile(rec, ProfileOptions(body)) ]
  /\ UNCHANGED << botVars, storeVars, disp, lookups, replies, platformVars >>

\* An exception inside updateBotSettings: the route's catch answers 500, the
\* catch of updateBotProfile turns it into { success: false }.
Throws(rec, message) ==
  IF rec.ret = "profile" THEN ProfileReturns(rec, FALSE, message)
  ELSE Fails(rec, 500)

\* storage.updateBotSettings, the select: insert when there is no row, update
\* the selected row otherwise (an update with nothing to set throws).
UpdateSelect(r) ==
  /\ req[r].pc = "select"
  /\ \E existing \in SelectBotSettings :
       req' = [ req EXCEPT ![r] =
         IF existing = <<>> THEN [ @ EXCEPT !.pc = "insert" ]
         ELSE IF @.upd.has = {} THEN Throws(@, NoValues)
         ELSE [ @ EXCEPT !.pc = "update", !.existing = existing[1].id ] ]
  /\ UNCHANGED << botVars, storeVars, disp, lookups, replies, platformVars >>

\* storage.updateBotSettings, the insert or the update reaching the table.
UpdateWrite(r) ==
  /\ req[r].pc \in { "insert", "update" }
  /\ LET rec == req[r]
         rows == IF rec.pc = "insert"
                 THEN Append(botSettings, InsertedRow(rec.upd, settingsSerial + 1))
                 ELSE [ i \in DOMAIN botSettings |->
                          IF botSettings[i].id = rec.existing
                          THEN UpdatedRow(botSettings[i], rec.upd)
                          ELSE botSettings[i] ]
         id == IF rec.pc = "insert" THEN settingsSerial + 1 ELSE rec.existing
         returned == SelectSeq(rows, LAMBDA row : row.id = id)
     IN
       /\ botSettings' = rows
       /\ settingsSerial' = IF rec.pc = "insert" THEN settingsSerial + 1
                            ELSE settingsSerial
       /\ req' = [ q \in Reqs |->
            IF q = r
            THEN [ rec EXCEPT !.pc = "written", !.result = returned,
                     !.existing = 0, !.read = <<>>,
                     !.latest = rec.ret = "route" /\ "prefix" \in rec.upd.has,
                     !.persisted = rec.persisted \/ rec.ret = "profile" ]
            ELSE [ req[q] EXCEPT !.latest = FALSE ] ]
  /\ UNCHANGED << botVars, commandLogs, commandVars, clock, disp, lookups,
                  replies, platformVars >>

\* PATCH /api/settings once its updateBotSettings has resolved: 404 without a
\* row; with a prefix, updateBotPrefix up to its first await (it assigns
\* commandPrefix and starts a settings read); else the profile section.
PatchAfterUpdate(r) ==
  /\ req[r].pc = "written" /\ req[r].ret = "route"
  /\ LET rec == [ req[r] EXCEPT !.settings = req[r].result, !.result = <<>>,
                    !.upd = NoPartial, !.ret = "none" ]
         out == [ rec EXCEPT !.latest = FALSE ]
     IN
       IF rec.settings = <<>>
       THEN /\ req' = [ req EXCEPT ![r] = Fails(out, 404) ]
            /\ UNCHANGED commandPrefix
       ELSE IF TruthyPrefix(rec.body)
       THEN /\ commandPrefix' = rec.body.val.prefix
            /\ req' = [ req EXCEPT ![r] = [ rec EXCEPT !.pc = "prefixSelect" ] ]
       ELSE /\ req' = [ req EXCEPT ![r] = PatchProfileSection(out) ]
            /\ UNCHANGED commandPrefix
  /\ UNCHANGED << tokenSet, boot, client, commandList, commands, presence, storeVars, disp,
                  lookups, replies, platformVars >>

\* updateBotPrefix from "Update bot presence with new prefix" on.
PresenceUpdate ==
  /\ presence' = IF client THEN commandPrefix \o <<"h", "e", "l", "p">>
                 ELSE presence
  /\ UNCHANGED << tokenSet, boot, client, commandList, commands, commandPrefix >>

\* updateBotPrefix, its settings read resolves: with a row it calls
\* storage.updateBotSettings({ prefix }), without one it goes on.
PrefixSelect(r) ==
  /\ req[r].pc = "prefixSelect"
  /\ \E settings \in SelectBotSettings :
       IF settings # <<>>
       THEN /\ req' = [ req EXCEPT ![r] =
                 [ @ EXCEPT !.pc = "select", !.ret = "prefix", !.read = settings,
                     !.upd = Partial({ "prefix" }, req[r].body.val) ] ]
            /\ UNCHANGED botVars
       ELSE /\ req' = [ req EXCEPT ![r] =
                 PatchProfileSection([ @ EXCEPT !.latest = FALSE ]) ]
            /\ PresenceUpdate
  /\ UNCHANGED << storeVars, disp, lookups, replies, platformVars >>

\* updateBotPrefix once its updateBotSettings has resolved.
PrefixAfterUpdate(r) ==
  /\ req[r].pc = "written" /\ req[r].ret = "prefix"
  /\ req' = [ req EXCEPT ![r] =
       PatchProfileSection([ @ EXCEPT !.result = <<>>, !.upd = NoPartial,
                               !.ret = "none" ]) ]
  /\ PresenceUpdate
  /\ UNCHANGED << storeVars, disp, lookups, replies, platformVars >>

\* client.user.setUsername resolves: the nickname updates of all guilds start.
SetUsernameResolves(r) ==
  /\ req[r].pc = "setUsername"
  /\ username' = req[r].opt.val.botName
  /\ req' = [ req EXCEPT ![r] =
       IF Guilds = {} THEN AvatarSection(@)
       ELSE [ @ EXCEPT !.pc = "nicknames", !.pending = Guilds ] ]
  /\ UNCHANGED << botVars, storeVars, disp, lookups, replies, avatar, nicknames >>

\* A nickname fan-out whose first failure rejects Promise.all, lands in the
\* catch of the name update and abandons the guilds still pending.
NicknameSettlesFailFast(r, g, ok) ==
  /\ req[r].pc = "nicknames"
  /\ g \in req[r].pending
  /\ nicknames' = IF ok THEN [ nicknames EXCEPT ![g] = req[r].opt.val.botName ]
                  ELSE nicknames
  /\ req' = [ req EXCEPT ![r] =
       LET rec == [ @ EXCEPT !.pending = IF ok THEN @ \ { g } ELSE {},
                      !.nameOk = ok, !.nameError = IF ok THEN "" ELSE NameTaken ]
       IN IF ~ok /\ ~Truthy(rec.opt, "botAvatar")
          THEN ProfileReturns(rec, FALSE, rec.nameError)
          ELSE IF rec.pending = {} THEN AvatarSection(rec) ELSE rec ]
  /\ UNCHANGED << botVars, storeVars, disp, lookups, replies, username, avatar >>

\* The nickname update of guild g settles (a failure is caught and logged
\* inside the guild's own callback); when it was the last one, Promise.all
\* resolves and the avatar section starts.
NicknameSettles(r, g, ok) ==
  /\ req[r].pc = "nicknames"
  /\ g \in req[r].pending
  /\ nicknames' = IF ok THEN [ nicknames EXCEPT ![g] = req[r].opt.val.botName ]
                  ELSE nicknames
  /\ req' = [ req EXCEPT ![r] =
       LET rec == [ @ EXCEPT !.pending = @ \ { g } ]
       IN IF rec.pending = {} THEN AvatarSection(rec) ELSE rec ]
  /\ UNCHANGED << botVars, storeVars, disp, lookups, replies, username, avatar >>

\* client.user.setUsername rejects.
SetUsernameRejects(r) ==
  /\ req[r].pc = "setUsername"
  /\ req' = [ req EXCEPT ![r] =
       LET rec == [ @ EXCEPT !.nameOk = FALSE, !.nameError = NameTaken ] IN
         IF ~Truthy(rec.opt, "botAvatar")
         THEN ProfileReturns(rec, FALSE, rec.nameError)
         ELSE [ rec EXCEPT !.pc = "setAvatar" ] ]
  /\ UNCHANGED << botVars, storeVars, disp, lookups, replies, platformVars >>

\* client.user.setAvatar resolves.
SetAvatarResolves(r) ==
  /\ req[r].pc = "setAvatar"
  /\ avatar' = req[r].opt.val.botAvatar
  /\ req' = [ req EXCEPT ![r] = Persist(@) ]
  /\ UNCHANGED << botVars, storeVars, disp, lookups, replies, username, nicknames >>

\* client.user.setAvatar rejects.
SetAvatarRejects(r) ==
  /\ req[r].pc = "setAvatar"
  /\ req' = [ req EXCEPT ![r] =
       LET rec == [ @ EXCEPT !.avatarOk = FALSE ] IN
         IF ~Truthy(rec.opt, "botName") \/ ~rec.nameOk
         THEN ProfileReturns(rec, FALSE, AvatarRejected)
         ELSE Persist(rec) ]
  /\ UNCHANGED << botVars, storeVars, disp, lookups, replies, platformVars >>

\* updateBotProfile once its updateBotSettings has resolved.
ProfileAfterPersist(r) ==
  /\ req[r].pc = "written" /\ req[r].ret = "profile"
  /\ req' = [ req EXCEPT ![r] =
       IF Truthy(@.opt, "botName") /\ ~@.nameOk
       THEN ProfileReturns(@, FALSE, @.nameError)
       ELSE ProfileReturns(@, TRUE, "") ]
  /\ UNCHANGED << botVars, storeVars, disp, lookups, replies, platformVars >>

\* Steps of storage.updateBotSettings and of the PATCH route after it.
StoreSteps(r) ==
  \/ UpdateSelect(r)
  \/ UpdateWrite(r)
  \/ PatchAfterUpdate(r)

\* Steps of updateBotPrefix.
PrefixSteps(r) ==
  \/ PrefixSelect(r)
  \/ PrefixAfterUpdate(r)

\* Steps of updateBotProfile.
ProfileSteps(r) ==
  \/ SetUsernameResolves(r)
  \/ \E g \in Guilds, ok \in BOOLEAN : NicknameSettles(r, g, ok)
  \/ SetUsernameRejects(r)
  \/ SetAvatarResolves(r)
  \/ SetAvatarRejects(r)
  \/ ProfileAfterPersist(r)

\* Request bodies that touch the profile.
ProfileBodies ==
  { Partial({ "botName" }, [ ColumnDefaults EXCEPT !.botName = "TooCommonName" ]),
    Partial({ "botAvatar" }, [ ColumnDefaults EXCEPT !.botAvatar = "a.png" ]),
    Partial({ "botName", "botAvatar" },
            [ ColumnDefaults EXCEPT !.botName = "Other", !.botAvatar = "b.png" ]) }

\* The profile synchronisation: both routes that call updateBotProfile, with
\* every outcome of the platform calls.
NextProfile ==
  \/ Boot
  \/ \E r \in Reqs :
       \/ \E body \in ProfileBodies, valid \in BOOLEAN : PatchSettings(r, body, valid)
       \/ \E body \in ProfileBodies \cup { NoPartial }, admin \in BOOLEAN :
            PostBotProfile(r, body, admin)
       \/ StoreSteps(r)
       \/ ProfileSteps(r)

InitProfile ==
  \E rows \in { <<>>, << DefaultSettings @@ [ id |-> 1 ] >> } : InitWith(rows)

SpecProfile == InitProfile /\ [][NextProfile]_vars

\* ------------------------------------------------------------------ C1
\* C1: every call of updateBotProfile that requests a botName and/or a
\* botAvatar and reaches the platform has written the requested values to
\* the Settings Store when it returns, whatever the platform calls did.
C1_PersistsBeforeReturn ==
  \A r \in Reqs :
    ( /\ req[r].pc = "done"
      /\ req[r].called
      /\ client
      /\ Truthy(req[r].opt, "botName") \/ Truthy(req[r].opt, "botAvatar") )
    => req[r].persisted

\* ------------------------------------------------------------------ C2
\* C2: updateBotProfile returns success: true only if every requested
\* platform call (username for botName, avatar for botAvatar) succeeded.
C2_SuccessOnlyIfAllSucceeded ==
  \A r \in Reqs :
    ( req[r].pc = "done" /\ req[r].success = "true" )
    => /\ Truthy(req[r].opt, "botName") => req[r].nameOk
       /\ Truthy(req[r].opt, "botAvatar") => req[r].avatarOk

\* PATCH /api/settings alone, with bodies that touch the profile.
NextPatchProfile ==
  \/ Boot
  \/ \E r \in Reqs :
       \/ \E body \in ProfileBodies, valid \in BOOLEAN : PatchSettings(r, body, valid)
       \/ StoreSteps(r)
       \/ ProfileSteps(r)

SpecPatchProfile == InitProfile /\ [][NextPatchProfile]_vars

\* ------------------------------------------------------------------ C3
\* A PATCH /api/settings request whose botName the platform rejected.
PatchNameRejected(r) ==
  /\ req[r].pc = "done"
  /\ req[r].route = "patch"
  /\ req[r].called
  /\ ~req[r].nameOk

\* No request other than r has carried a botName so far.
OnlyNameRequest(r) ==
  \A q \in Reqs \ { r } : "botName" \notin req[q].body.has

\* C3: a PATCH /api/settings whose botName the platform rejects is answered
\* with HTTP 200 and a warning, and when it completes the Settings Store
\* holds the requested botName (as long as no other request has written a
\* botName of its own).
C3_RejectedNameStillSaved ==
  \A r \in Reqs :
    PatchNameRejected(r)
    => /\ req[r].status = 200
       /\ req[r].warning # ""
       /\ OnlyNameRequest(r)
            => /\ GetBotSettings # <<>>
               /\ GetBotSettings[1].botName = req[r].body.val.botName

C3_Witness ==
  \E r \in Reqs :
    /\ PatchNameRejected(r)
    /\ req[r].warning = NameTaken
    /\ GetBotSettings # <<>>
    /\ GetBotSettings[1].botName = "TooCommonName"

\* ------------------------------------------------------ the settings spec
\* Request bodies that change the prefix.
PrefixBodies ==
  { Partial({ "prefix" }, [ ColumnDefaults EXCEPT !.prefix = <<"?">> ]),
    Partial({ "prefix" }, [ ColumnDefaults EXCEPT !.prefix = <<>> ]) }

\* The dispatcher next to PATCH /api/settings requests that change the prefix.
NextSettings ==
  \/ Boot
  \/ Dispatch
  \/ \E r \in Reqs :
       \/ \E body \in PrefixBodies : PatchSettings(r, body, TRUE)
       \/ StoreSteps(r)
       \/ PrefixSteps(r)

SpecSettings == InitProfile /\ [][NextSettings]_vars


\* --------------------------------------------------- rows of a dispatch
\* Positions in command_logs of the rows written for message d.
RowsOf(d) == { i \in DOMAIN commandLogs : commandLogs[i].userId = d }
AuditRowsOf(d) == { i \in RowsOf(d) : commandLogs[i].kind # "error" }
ErrorRowsOf(d) == { i \in RowsOf(d) : commandLogs[i].kind = "error" }

\* ------------------------------------------------------------------ C4
\* C4 as stated: once the handler has been invoked or the not-found branch
\* entered, exactly one audit row of the message exists, with isError true
\* exactly when no handler was found.
C4_ExactlyOneAuditRow ==
  \A d \in Msgs :
    disp[d].branch # "none"
    => /\ Cardinality(AuditRowsOf(d)) = 1
       /\ \A i \in AuditRowsOf(d) : commandLogs[i].isError = ~disp[d].found

\* C4 as amended: before the handler is invoked or the not-found branch is
\* entered, the dispatcher has made exactly one audit write; it has added one
\* row (isError true exactly when no handler was found) when the write
\* succeeded and none when it failed, and a message that is filtered out or
\* still waits for its audit write has no row.
C4_OneAuditWrite ==
  \A d \in Msgs :
    /\ disp[d].branch # "none" => disp[d].audit \in { "ok", "failed" }
    /\ Cardinality(AuditRowsOf(d)) = IF disp[d].audit = "ok" THEN 1 ELSE 0
    /\ \A i \in AuditRowsOf(d) : commandLogs[i].isError = ~disp[d].found
    /\ disp[d].pc \in { "idle", "ignored", "audit" } => RowsOf(d) = {}
    /\ disp[d].pc \in { "execute", "notfound" } => ErrorRowsOf(d) = {}

C4_Witness ==
  \E d, e \in Msgs :
    /\ disp[d].pc = "execute" /\ disp[d].audit = "ok"
    /\ \E i \in AuditRowsOf(d) : ~commandLogs[i].isError
    /\ disp[e].pc = "notfound" /\ disp[e].audit = "ok"
    /\ \E i \in AuditRowsOf(e) : commandLogs[i].isError

\* ------------------------------------------------------------------ C5
\* C5: when a handler throws, no error leaves the messageCreate listener.
C5_NoErrorEscapes ==
  \A d \in Msgs : disp[d].error # "" => ~disp[d].escaped

\* ------------------------------------------------------------------ C6
\* C6: a failed audit write does not stop the dispatch: the handler of a
\* found command is invoked, the not-found branch of an unknown one is
\* taken, as after a successful write.
C6_AuditFailureDoesNotBlock ==
  \A d \in Msgs :
    disp[d].audit # "none"
    => /\ disp[d].branch = IF disp[d].found THEN "execute" ELSE "notfound"
       /\ disp[d].pc \notin { "idle", "ignored", "audit" }
       /\ ( disp[d].audit = "failed" /\ disp[d].found /\ disp[d].error = "" )
            => ~disp[d].escaped

C6_Witness ==
  \E d, e \in Msgs :
    /\ disp[d].audit = "failed" /\ disp[d].found /\ disp[d].pc = "execute"
    /\ disp[e].audit = "failed" /\ ~disp[e].found /\ disp[e].pc = "notfound"

\* ------------------------------------------------------------------ C7
\* p is literally the beginning of c.
LiteralPrefix(p, c) ==
  /\ Len(p) <= Len(c)
  /\ \A i \in 1..Len(p) : c[i] = p[i]

\* C7: a message whose content does not begin with the current prefix is
\* dropped by the step that receives it: no registry lookup, no CommandLog
\* row, no reply, and nothing else changes.
C7_NonPrefixedIgnored ==
  [][ \A d \in Msgs :
        ( /\ disp[d].pc = "idle"
          /\ disp'[d].pc # "idle"
          /\ ~LiteralPrefix(commandPrefix, disp'[d].content) )
        => /\ disp'[d] = [ IdleDispatch EXCEPT !.pc = "ignored",
                             !.bot = disp'[d].bot, !.content = disp'[d].content ]
           /\ \A e \in Msgs \ { d } : disp'[e] = disp[e]
           /\ UNCHANGED << botVars, storeVars, lookups, replies, req,
                           platformVars >> ]_vars

C7_Witness ==
  \E d \in Msgs :
    /\ disp[d].pc = "ignored"
    /\ ~disp[d].bot
    /\ disp[d].content = PING
    /\ commandPrefix = <<"!">>
    /\ \E e \in Msgs : disp[e].pc = "execute"

\* ------------------------------------------------------------------ C8
\* C8: while the bot is connected, the prefix the dispatcher tests messages
\* against is the prefix persisted in the Settings Store.
C8_PrefixIsStorePrefix ==
  ( Serving /\ client )
  => /\ GetBotSettings # <<>>
     /\ commandPrefix = GetBotSettings[1].prefix

\* ------------------------------------------------------------------ C9
\* C9: bot_settings never holds a second row, and holds exactly one row once
\* initializeDatabase has run.
C9_SingleSettingsRow ==
  /\ Len(botSettings) <= 1
  /\ ( tokenSet /\ boot \in { "initialized", "serving" } ) => Len(botSettings) = 1

\* ----------------------------------------------------------------- C10
\* The catch block read logErrors as true.
LogErrorsRead(d) ==
  disp[d].settings # <<>> /\ disp[d].settings[1].logErrors

\* C10 as stated: a finished dispatch has one error row exactly when its
\* handler threw and logErrors was true when the catch block read it; a
\* dispatch whose handler did not throw has at most its audit row.
C10_ErrorRowIffLogErrors ==
  \A d \in Msgs :
    disp[d].pc = "done"
    => /\ Cardinality(ErrorRowsOf(d)) = 1
            <=> ( disp[d].error # "" /\ LogErrorsRead(d) )
       /\ disp[d].error = "" => Cardinality(RowsOf(d)) <= 1

\* C10 as amended: when a handler throws, the catch block that read
\* logErrors as true attempts one error-log write, and one additional row
\* (isError true, carrying the handler's error text) exists exactly when
\* that write succeeded; with logErrors false, with a failed settings read,
\* after handler success and in the not-found branch there is no row beyond
\* the audit row.
C10_ErrorRowIffLoggedOk ==
  \A d \in Msgs :
    disp[d].pc = "done"
    => /\ Cardinality(ErrorRowsOf(d)) =
            IF disp[d].error # "" /\ LogErrorsRead(d) /\ disp[d].errorLog = "ok"
            THEN 1 ELSE 0
       /\ ( disp[d].error # "" /\ LogErrorsRead(d) ) => disp[d].errorLog # "none"
       /\ ~LogErrorsRead(d) => disp[d].errorLog = "none"
       /\ \A i \in ErrorRowsOf(d) :
            commandLogs[i].isError /\ commandLogs[i].detail = disp[d].error
       /\ disp[d].error = "" => ErrorRowsOf(d) = {} /\ Cardinality(RowsOf(d)) <= 1
       /\ Cardinality(RowsOf(d)) <= 2

C10_Witness ==
  \E d \in Msgs :
    /\ disp[d].pc = "done" /\ disp[d].error = "boom" /\ LogErrorsRead(d)
    /\ disp[d].errorLog = "ok"
    /\ Cardinality(ErrorRowsOf(d)) = 1 /\ Cardinality(RowsOf(d)) = 2


\* ----------------------------------------------------------------- C11
\* The replies the dispatcher has sent to the author of message d.
RepliesTo(d) == { i \in DOMAIN replies : replies[i].to = d }

\* C11: a reply sent after a handler failure is the generic message, followed
\* by the handler's error text only if showDetailedErrors (and
\* displayErrorsToUsers) was true in the settings the catch block read; with
\* displayErrorsToUsers false no failure reply is sent.
C11_ErrorTextOnlyWhenDetailed ==
  \A d \in Msgs :
    disp[d].error # ""
    => /\ Cardinality(RepliesTo(d)) <= 1
       /\ \A i \in RepliesTo(d) :
            /\ disp[d].settings # <<>>
            /\ disp[d].settings[1].displayErrorsToUsers
            /\ replies[i].text[1] = GenericError
            /\ IF disp[d].settings[1].showDetailedErrors
               THEN replies[i].text = << GenericError, " Error: ", disp[d].error >>
               ELSE replies[i].text = << GenericError >>
       /\ ( disp[d].settings = <<>> \/ ~disp[d].settings[1].displayErrorsToUsers )
            => RepliesTo(d) = {}

C11_Witness ==
  \E d, e \in Msgs :
    /\ disp[d].error = "boom" /\ disp[e].error = "boom"
    /\ \E i \in RepliesTo(d) : replies[i].text = << GenericError, " Error: ", "boom" >>
    /\ \E i \in RepliesTo(e) : replies[i].text = << GenericError, " Error: ", "boom" >>
    /\ d # e

\* ----------------------------------------------------------------- C12
\* C12: a dispatch whose command name is not in the registry answers with
\* exactly the configured commandNotFoundMessage when displayErrorsToUsers is
\* true (once its settings read and its reply have resolved) and with nothing
\* when it is false; its audit row has isError true and command = prefix
\* followed by the command name.
C12_NotFoundReply ==
  \A d \in Msgs :
    disp[d].branch = "notfound"
    => /\ Cardinality(RepliesTo(d)) <= 1
       /\ \A i \in RepliesTo(d) :
            /\ GetBotSettings # <<>>
            /\ GetBotSettings[1].displayErrorsToUsers
            /\ replies[i].text = << GetBotSettings[1].commandNotFoundMessage >>
       /\ ( /\ disp[d].pc = "done" /\ ~disp[d].escaped
            /\ GetBotSettings # <<>> /\ GetBotSettings[1].displayErrorsToUsers )
            => RepliesTo(d) # {}
       /\ \A i \in AuditRowsOf(d) :
            /\ commandLogs[i].isError
            /\ disp[d].pc = "notfound"
                 => commandLogs[i].command = commandPrefix \o disp[d].name
       /\ ErrorRowsOf(d) = {}

C12_Witness ==
  \E d \in Msgs :
    /\ disp[d].branch = "notfound" /\ disp[d].pc = "done"
    /\ \E i \in RepliesTo(d) : replies[i].text = << "Try !help" >>
    /\ \E i \in AuditRowsOf(d) :
         commandLogs[i].isError /\ commandLogs[i].command = <<"!", "x">>


\* ----------------------------------------------------------------- C13
\* Two commands of the array have the same name once lower-cased.
Collides(list) ==
  \E i, j \in DOMAIN list :
    i < j /\ ToLowerCase(list[i].name) = ToLowerCase(list[j].name)

UpperLower ==
  { <<"P", "p">>, <<"I", "i">>, <<"N", "n">>, <<"G", "g">>, <<"A", "a">> }

\* a and b differ at most in the case of their letters.
CaseVariant(a, b) ==
  /\ Len(a) = Len(b)
  /\ \A i \in 1..Len(a) :
       \/ a[i] = b[i]
       \/ << a[i], b[i] >> \in UpperLower
       \/ << b[i], a[i] >> \in UpperLower

\* C14: of two messages being dispatched, one written prefix+n for a
\* registered name n and the other differing from it in letter case only,
\* both are looked up under the same key and resolve to the same handler.
C14_LookupCaseInsensitive ==
  \A d, e \in Msgs :
    ( /\ disp[d].pc = "audit" /\ disp[e].pc = "audit"
      /\ \E c \in commands : disp[e].content = commandPrefix \o c.name
      /\ CaseVariant(disp[d].content, disp[e].content) )
    => /\ disp[d].name = disp[e].name
       /\ disp[d].found = disp[e].found
       /\ MapGet(commands, disp[d].name) = MapGet(commands, disp[e].name)
       /\ commandList = Commands => disp[d].found

C14_Witness ==
  \E d, e \in Msgs :
    /\ disp[d].pc = "audit" /\ disp[e].pc = "audit"
    /\ disp[d].content = <<"!", "P", "I", "N", "G">>
    /\ disp[e].content = <<"!">> \o PING
    /\ disp[d].found /\ disp[e].found
    /\ commandList = Commands

\* ----------------------------------------------------------------- C15
\* The tokens of s when s is cut at every run of white-space characters,
\* leading and trailing white space dropped.
RECURSIVE WhiteTokensFrom(_, _, _, _)
WhiteTokensFrom(s, i, cur, out) ==
  IF i > Len(s) THEN IF cur = <<>> THEN out ELSE Append(out, cur)
  ELSE IF s[i] \in { SP, TAB }
       THEN WhiteTokensFrom(s, i + 1, <<>>,
                            IF cur = <<>> THEN out ELSE Append(out, cur))
       ELSE WhiteTokensFrom(s, i + 1, Append(cur, s[i]), out)

WhiteTokens(s) == WhiteTokensFrom(s, 1, <<>>, <<>>)

\* C15: the command name of a dispatched message is the lower-cased first
\* token, and its arguments the remaining tokens in order and as written, of
\* the content after the prefix cut at runs of any white space.
C15_SplitsOnWhitespace ==
  \A d \in Msgs :
    disp[d].pc = "audit"
    => LET rest == SubSeq(disp[d].content, Len(commandPrefix) + 1,
                          Len(disp[d].content))
           tokens == WhiteTokens(rest)
       IN /\ tokens # <<>>
          /\ CaseVariant(disp[d].name, Head(tokens))
          /\ \A i \in 1..Len(disp[d].name) :
               \A u \in UpperLower : disp[d].name[i] # u[1]
          /\ disp[d].args = Tail(tokens)

\* ----------------------------------------------------------------- C16
\* c is p followed by white space only (or by nothing).
PrefixAndWhite(p, c) ==
  /\ LiteralPrefix(p, c)
  /\ \A i \in (Len(p) + 1)..Len(c) : c[i] \in { SP, TAB }

\* C16: a message that is the prefix alone, or the prefix followed by white
\* space only, is dropped by the step that receives it: no registry lookup,
\* no CommandLog row, no reply, and nothing else changes.
C16_EmptyCommandIgnored ==
  [][ \A d \in Msgs :
        ( /\ disp[d].pc = "idle"
          /\ disp'[d].pc # "idle"
          /\ ~disp'[d].bot
          /\ PrefixAndWhite(commandPrefix, disp'[d].content) )
        => /\ disp'[d] = [ IdleDispatch EXCEPT !.pc = "ignored",
                             !.content = disp'[d].content ]
           /\ \A e \in Msgs \ { d } : disp'[e] = disp[e]
           /\ UNCHANGED << botVars, storeVars, lookups, replies, req,
                           platformVars >> ]_vars

C16_Witness ==
  \E d, e \in Msgs :
    /\ disp[d].pc = "ignored" /\ disp[d].content = <<"!", TAB>>
    /\ disp[e].pc = "ignored" /\ disp[e].content = <<"!">>
    /\ lookups = <<>> /\ commandLogs = <<>> /\ replies = <<>>


\* ----------------------------------------------------------------- C17
\* A caller that waits for each answer before it sends the next request:
\* POST /api/bot-profile as an admin, one call of updateBotProfile at a time.
NextSequential ==
  \/ Boot
  \/ \E r \in Reqs :
       \/ /\ \A q \in Reqs : q < r => req[q].pc = "done"
          /\ \E body \in ProfileBodies : PostBotProfile(r, body, TRUE)
       \/ UpdateSelect(r)
       \/ UpdateWrite(r)
       \/ ProfileSteps(r)

SpecSequential == InitProfile /\ [][NextSequential]_vars

\* Request r was a finished call of updateBotProfile({ botName }) on the
\* connected bot.
NameCall(r) ==
  /\ req[r].pc = "done"
  /\ req[r].called
  /\ client
  /\ req[r].body.has = { "botName" }

\* C17: of two successive calls of updateBotProfile with the same
\* { botName }, the first accepted by the platform and the second rejected,
\* the first returns success and the store holds the botName when it
\* returns; the second returns success:false and the store still holds the
\* botName.
C17_SecondRejectionKeepsName ==
  \A r \in Reqs :
    ( /\ NameCall(r) /\ req[r].nameOk
      /\ \A q \in Reqs : q > r + 1 => req[q].pc = "idle" )
    => /\ req[r].success = "true"
       /\ ( r + 1 \notin Reqs \/ req[r + 1].pc = "idle"
            \/ ( /\ NameCall(r + 1) /\ ~req[r + 1].nameOk
                 /\ req[r + 1].body = req[r].body ) )
            => /\ GetBotSettings # <<>>
               /\ GetBotSettings[1].botName = req[r].body.val.botName
       /\ ( /\ r + 1 \in Reqs /\ NameCall(r + 1) /\ ~req[r + 1].nameOk )
            => /\ req[r + 1].success = "false"
               /\ req[r + 1].warning = NameTaken

C17_Witness ==
  \E r \in Reqs :
    /\ r + 1 \in Reqs
    /\ NameCall(r) /\ req[r].nameOk /\ req[r].success = "true"
    /\ NameCall(r + 1) /\ ~req[r + 1].nameOk /\ req[r + 1].success = "false"
    /\ req[r + 1].body = req[r].body
    /\ GetBotSettings # <<>>
    /\ GetBotSettings[1].botName = "TooCommonName"


\* ----------------------------------------------------------------- C18
\* C18: when updateBotPrefix reads the settings after the route's
\* updateBotSettings({ prefix: p, ... }) and no write has reached the table
\* in between, the record it gets has prefix p.
C18_PrefixRoundTrip ==
  \A r \in Reqs :
    ( /\ req[r].pc = "select" /\ req[r].ret = "prefix"
      /\ req[r].latest )
    => /\ req[r].read # <<>>
       /\ req[r].read[1].prefix = req[r].body.val.prefix


\* ------------------------------------------------------ the logs routes
\* limit: number = 100 of getCommandLogs.
DefaultLimit == 100

\* The body of a POST /api/logs request, and the user id it carries.
ApiUser == 0
ApiEntry ==
  [ command |-> <<"!", "a", "p", "i">>, isError |-> FALSE, kind |-> "api",
    detail |-> "" ]

\* POST /api/logs up to its await: parse the body, start the insert.
PostLogs(r, valid) ==
  /\ Arrives(r)
  /\ req' = [ req EXCEPT ![r] =
       IF ~valid THEN Fails([ @ EXCEPT !.route = "postLogs", !.valid = FALSE ], 400)
       ELSE [ @ EXCEPT !.route = "postLogs", !.pc = "logInsert" ] ]
  /\ UNCHANGED << botVars, storeVars, disp, lookups, replies, platformVars >>

\* An insert that replaces the table by the new row.
LogInsertedAlone(r) ==
  /\ req[r].pc = "logInsert"
  /\ commandLogs' = << LogRow(ApiUser, ApiEntry) >>
  /\ req' = [ req EXCEPT ![r] = [ @ EXCEPT !.pc = "done", !.status = 201 ] ]
  /\ UNCHANGED << botVars, botSettings, settingsSerial, commandVars, clock, disp, lookups,
                  replies, platformVars >>

\* POST /api/logs, storage.createCommandLog resolves: 201 with the row.
LogInserted(r) ==
  /\ req[r].pc = "logInsert"
  /\ commandLogs' = Append(commandLogs, LogRow(ApiUser, ApiEntry))
  /\ req' = [ req EXCEPT ![r] = [ @ EXCEPT !.pc = "done", !.status = 201 ] ]
  /\ UNCHANGED << botVars, botSettings, settingsSerial, commandVars, clock, disp, lookups,
                  replies, platformVars >>

\* req.query.limit ? parseInt(req.query.limit) : undefined, then the default
\* of the parameter; a query is <<>> (no limit given) or << n >>.
Limit(query) == IF query = <<>> THEN DefaultLimit ELSE query[1]

\* GET /api/logs up to its await.
GetLogs(r, query) ==
  /\ Arrives(r)
  /\ req' = [ req EXCEPT ![r] =
       [ @ EXCEPT !.route = "getLogs", !.pc = "logsSelect", !.query = query ] ]
  /\ UNCHANGED << botVars, storeVars, disp, lookups, replies, platformVars >>

\* A sort that puts the oldest rows first.
RECURSIVE OldestFirst(_, _)
OldestFirst(ids, limit) ==
  IF limit = 0 \/ ids = {} THEN { <<>> }
  ELSE LET top == { i \in ids : \A j \in ids :
                      commandLogs[i].timestamp <= commandLogs[j].timestamp }
       IN UNION { { << commandLogs[i] >> \o rest :
                      rest \in OldestFirst(ids \ { i }, limit - 1) } : i \in top }

\* ORDER BY timestamp DESC LIMIT limit over the rows ids: the next row is a
\* row of the greatest timestamp left, any of them when several tie.
RECURSIVE OrderByDescLimit(_, _)
OrderByDescLimit(ids, limit) ==
  IF limit = 0 \/ ids = {} THEN { <<>> }
  ELSE LET top == { i \in ids : \A j \in ids :
                      commandLogs[i].timestamp >= commandLogs[j].timestamp }
       IN UNION { { << commandLogs[i] >> \o rest :
                      rest \in OrderByDescLimit(ids \ { i }, limit - 1) } : i \in top }

\* storage.getCommandLogs(limit): the results the select may give.
GetCommandLogs(limit) == OrderByDescLimit(DOMAIN commandLogs, limit)

\* GET /api/logs, storage.getCommandLogs resolves: 200 with the rows.
LogsSelected(r) ==
  /\ req[r].pc = "logsSelect"
  /\ \E rows \in GetCommandLogs(Limit(req[r].query)) :
       req' = [ req EXCEPT ![r] =
         [ @ EXCEPT !.pc = "done", !.status = 200, !.logs = rows ] ]
  /\ UNCHANGED << botVars, storeVars, disp, lookups, replies, platformVars >>

\* The dispatcher on a known and an unknown command, with the logs routes.
LogContents == { <<"!">> \o PING, <<"!", "x">> }

NextLogs ==
  \/ Boot
  \/ \E d \in Msgs :
       \/ \E c \in LogContents : MessageCreate(d, [ bot |-> FALSE, content |-> c ])
       \/ AuditLogged(d)
       \/ NotFoundSettings(d)
       \/ Replied(d)
       \/ HandlerReturns(d)
       \/ \E e \in HandlerErrors : HandlerThrows(d, e)
       \/ CatchSettings(d)
       \/ ErrorLogged(d)
  \/ \E r \in Reqs :
       \/ PostLogs(r, TRUE)
       \/ LogInserted(r)

InitLogs == InitWith(<< DefaultSettings @@ [ id |-> 1 ] >>)

SpecLogs == InitLogs /\ [][NextLogs]_vars

\* command_logs tables left by earlier runs: up to MaxRows rows, stamped in
\* any order with times up to MaxTime.
StoredLogs ==
  UNION { { [ i \in 1..n |->
                [ id |-> i, timestamp |-> stamps[i], userId |-> ApiUser,
                  command |-> ApiEntry.command, isError |-> FALSE,
                  isWarning |-> FALSE, kind |-> "api", detail |-> "" ] ] :
            stamps \in [ 1..n -> 0..MaxTime ] } : n \in 0..MaxRows }

Queries == { <<>>, << 0 >>, << 1 >>, << 2 >> }

NextLogsRead ==
  \/ Boot
  \/ \E r \in Reqs :
       \/ \E query \in Queries : GetLogs(r, query)
       \/ LogsSelected(r)

InitLogsRead ==
  \E logs \in StoredLogs :
    InitTables(<< DefaultSettings @@ [ id |-> 1 ] >>, Commands, logs)

SpecLogsRead == InitLogsRead /\ [][NextLogsRead]_vars


\* ----------------------------------------------------------------- C19
\* C19: no step removes or changes a row of command_logs; the table only
\* grows at its end.
C19_AppendOnly ==
  [][ /\ Len(commandLogs') >= Len(commandLogs)
      /\ \A i \in DOMAIN commandLogs : commandLogs'[i] = commandLogs[i] ]_vars

C19_Witness ==
  /\ Len(commandLogs) >= 3
  /\ \E i, j, k \in DOMAIN commandLogs :
       /\ commandLogs[i].userId = ApiUser
       /\ commandLogs[j].kind = "executed"
       /\ commandLogs[k].kind = "error"
       /\ i < j /\ j < k

\* ----------------------------------------------------------------- C20
\* C20: the rows GET /api/logs gets from getCommandLogs(limit) are
\* min(limit, n) different rows of the n stored rows, no row left out is
\* newer than a row returned, and they come newest first; without a limit
\* in the query 100 is used.
C20_NewestRowsFirst ==
  [][ \A r \in Reqs :
        ( req[r].pc = "logsSelect" /\ req'[r].pc = "done" )
        => LET rows == req'[r].logs
               limit == IF req[r].query = <<>> THEN 100 ELSE req[r].query[1]
               n == Len(commandLogs)
           IN /\ Len(rows) = IF limit < n THEN limit ELSE n
              /\ \A i \in DOMAIN rows :
                   \E k \in DOMAIN commandLogs : commandLogs[k] = rows[i]
              /\ \A i, j \in DOMAIN rows :
                   i < j => /\ rows[i].id # rows[j].id
                            /\ rows[i].timestamp >= rows[j].timestamp
              /\ \A k \in DOMAIN commandLogs :
                   ( \A i \in DOMAIN rows : rows[i].id # commandLogs[k].id )
                   => \A i \in DOMAIN rows :
                        rows[i].timestamp >= commandLogs[k].timestamp ]_vars

C20_Witness ==
  \E r, q \in Reqs :
    /\ req[r].pc = "done" /\ req[r].route = "getLogs"
    /\ req[r].query = << 2 >>
    /\ Len(commandLogs) = 3
    /\ Len(req[r].logs) = 2
    /\ req[r].logs[1].timestamp > req[r].logs[2].timestamp
    /\ req[r].logs[1].id < req[r].logs[2].id
    /\ req[q].pc = "done" /\ req[q].route = "getLogs"
    /\ req[q].query = <<>> /\ Len(req[q].logs) = 3

\* ----------------------------------------------------- the POST route alone
\* POST /api/bot-profile alone, from admins and from others, with every
\* outcome of the platform calls.
NextPostProfile ==
  \/ Boot
  \/ \E r \in Reqs :
       \/ \E body \in ProfileBodies \cup { NoPartial }, admin \in BOOLEAN :
            PostBotProfile(r, body, admin)
       \/ UpdateSelect(r)
       \/ UpdateWrite(r)
       \/ ProfileSteps(r)

SpecPostProfile == InitProfile /\ [][NextPostProfile]_vars

\* ------------------------------------------------------------------ C21
\* The call of updateBotProfile of request r is waiting for Promise.all of
\* the nickname updates.
InFanOut(r) == req[r].pc = "nicknames"

\* The step of request r out of its setUsername await starts the nickname
\* updates of all guilds iff setUsername resolved.
FanOutStarts(r) ==
  ( req[r].pc = "setUsername" /\ req'[r].pc # "setUsername" )
  => /\ req'[r].nameOk <=> InFanOut(r)'
     /\ req'[r].pending = IF req'[r].nameOk THEN Guilds ELSE {}

\* A step of request r during the fan-out settles one guild and leaves every
\* other guild pending, leaves the outcome flags and the return value alone,
\* and goes on (to the avatar call or the persist) only after the last guild.
FanOutStep(r) ==
  ( InFanOut(r) /\ req'[r] # req[r] )
  => /\ \E g \in req[r].pending : req'[r].pending = req[r].pending \ { g }
     /\ req'[r].nameOk /\ req'[r].avatarOk
     /\ req'[r].success = "none"
     /\ IF req'[r].pending # {} THEN InFanOut(r)'
        ELSE \/ req'[r].pc = "setAvatar"
             \/ req'[r].pc = "select" /\ req'[r].ret = "profile"

\* A finished call of updateBotProfile that reached the platform.
Returned(r) == req[r].pc = "done" /\ req[r].called /\ client

\* C21: the nickname updates are started iff setUsername succeeded, and then
\* in every guild; each settles on its own, whatever the others did, and no
\* outcome of theirs keeps the call from the persist or changes what it
\* returns: calls with the same options and the same username / avatar
\* outcomes return the same success value.
C21_NicknameFanOut ==
  /\ [][ \A r \in Reqs : FanOutStarts(r) /\ FanOutStep(r) ]_vars
  /\ [] \A r, q \in Reqs :
          ( /\ Returned(r) /\ Returned(q)
            /\ req[r].opt = req[q].opt
            /\ req[r].nameOk = req[q].nameOk
            /\ req[r].avatarOk = req[q].avatarOk )
          => /\ req[r].success = req[q].success
             /\ req[r].persisted = req[q].persisted

\* Two finished calls with the same botName: the nickname update of g2 failed
\* in both while that of g1 succeeded; both calls persisted and returned
\* success.
C21_Witness ==
  /\ Returned(1) /\ Returned(2)
  /\ req[1].opt = req[2].opt
  /\ Truthy(req[1].opt, "botName")
  /\ nicknames["g1"] = req[1].opt.val.botName
  /\ nicknames["g2"] # req[1].opt.val.botName
  /\ username = req[1].opt.val.botName
  /\ req[1].persisted /\ req[2].persisted
  /\ req[1].success = "true" /\ req[2].success = "true"

Undefined == "undefined"

\* The own properties of the object passed to updateBotSettings by the call
\* pending in rec: updateBotProfile writes both keys into the literal, with
\* undefined for what was not requested; the routes pass the parsed body.
OwnKeys(rec) ==
  IF rec.ret = "profile" THEN { "botName", "botAvatar" } ELSE rec.upd.has

\* { ...existingSettings, ...settings }: the spread copies every own property
\* of settings over the row, the undefined ones included.
Spread(row, keys, p) ==
  [ f \in DOMAIN row |->
      IF f \in keys THEN ( IF f \in p.has THEN p.val[f] ELSE Undefined )
      ELSE row[f] ]

\* The table of a MemStorage after construction: initializeBotSettings has
\* stored one row.
MemRows == << ColumnDefaults @@ [ id |-> 1 ] >>

\* MemStorage.updateBotSettings: no await inside, so the call is one step.
\* It merges into the first stored row, or returns undefined without one.
MemUpdateBotSettings(r) ==
  /\ req[r].pc = "select"
  /\ LET rec == req[r] IN
       IF botSettings = <<>>
       THEN /\ req' = [ req EXCEPT ![r] = [ rec EXCEPT !.pc = "written" ] ]
            /\ UNCHANGED botSettings
       ELSE LET updated == Spread(botSettings[1], OwnKeys(rec), rec.upd) IN
              /\ botSettings' = [ botSettings EXCEPT ![1] = updated ]
              /\ req' = [ req EXCEPT ![r] =
                   [ rec EXCEPT !.pc = "written", !.result = << updated >>,
                       !.persisted = rec.persisted \/ rec.ret = "profile" ] ]
  /\ UNCHANGED << botVars, settingsSerial, commandLogs, commandVars, clock,
                  disp, lookups, replies, platformVars >>

\* The profile synchronisation over a MemStorage.
NextMemStorage ==
  \/ Boot
  \/ \E r \in Reqs :
       \/ \E body \in ProfileBodies, valid \in BOOLEAN : PatchSettings(r, body, valid)
       \/ \E body \in ProfileBodies \cup { NoPartial }, admin \in BOOLEAN :
            PostBotProfile(r, body, admin)
       \/ MemUpdateBotSettings(r)
       \/ PatchAfterUpdate(r)
       \/ ProfileSteps(r)

InitMemStorage == InitWith(MemRows)

SpecMemStorage == InitMemStorage /\ [][NextMemStorage]_vars

\* ------------------------------------------------------------------ C23
\* The call of updateBotSettings of request r is pending.
Writing(r) == req[r].pc \in { "select", "insert", "update" }

\* Row `after` is row `before` with exactly the fields p requests changed.
MergedOver(before, after, p) ==
  \A f \in DOMAIN before :
    after[f] = IF f \in p.has /\ f # "id" THEN p.val[f] ELSE before[f]

CommandNames == { <<"x">> }

\* Some row other than row `id` of the commands table carries `name`
\* (commands.name is UNIQUE: such an insert or update is rejected).
NameInUse(name, id) ==
  \E i \in DOMAIN commandsTable :
    commandsTable[i].name = name /\ commandsTable[i].id # id

\* POST /api/commands: insert a row; a rejected insert answers 500 and
\* leaves the table alone (the sequence has advanced all the same).
PostCommand(name, enabled) ==
  /\ Serving
  /\ commandsSerial < MaxCommandId
  /\ commandsSerial' = commandsSerial + 1
  /\ commandsTable' =
       IF NameInUse(name, 0) THEN commandsTable
       ELSE Append(commandsTable,
                   [ id |-> commandsSerial + 1, name |-> name, enabled |-> enabled ])
  /\ UNCHANGED << botVars, botSettings, settingsSerial, commandLogs, clock,
                  disp, lookups, replies, req, platformVars >>

\* Partial bodies of PATCH /api/commands/:id: disable, rename.
CommandPatches ==
  { [ has |-> { "enabled" }, name |-> <<>>, enabled |-> FALSE ],
    [ has |-> { "name" }, name |-> <<"x">>, enabled |-> TRUE ] }

\* The ids the dashboard user updates and deletes: that of the default ping
\* command and those of the commands created after the defaults.
CommandIds == { 2 } \cup ( Len(DefaultCommands) + 1 .. MaxCommandId )

\* PATCH /api/commands/:id: update the row of that id; 404 without one, 500
\* when the new name is in use.
PatchCommand(id, p) ==
  /\ Serving
  /\ commandsTable' =
       IF "name" \in p.has /\ NameInUse(p.name, id) THEN commandsTable
       ELSE [ i \in DOMAIN commandsTable |->
                IF commandsTable[i].id # id THEN commandsTable[i]
                ELSE [ id |-> id,
                       name |-> IF "name" \in p.has THEN p.name
                                ELSE commandsTable[i].name,
                       enabled |-> IF "enabled" \in p.has THEN p.enabled
                                   ELSE commandsTable[i].enabled ] ]
  /\ UNCHANGED << botVars, botSettings, settingsSerial, commandLogs,
                  commandsSerial, clock, disp, lookups, replies, req,
                  platformVars >>

\* DELETE /api/commands/:id: delete the row of that id; 404 without one.
DeleteCommand(id) ==
  /\ Serving
  /\ commandsTable' = SelectSeq(commandsTable, LAMBDA row : row.id # id)
  /\ UNCHANGED << botVars, botSettings, settingsSerial, commandLogs,
                  commandsSerial, clock, disp, lookups, replies, req,
                  platformVars >>

\* The listener without failures next to the routes of the commands table.
NextRegistry ==
  \/ Boot
  \/ \E d \in Msgs :
       \/ \E c \in LogContents : MessageCreate(d, [ bot |-> FALSE, content |-> c ])
       \/ AuditLogged(d)
       \/ NotFoundSettings(d)
       \/ Replied(d)
       \/ HandlerReturns(d)
  \/ \E name \in CommandNames, enabled \in BOOLEAN : PostCommand(name, enabled)
  \/ \E id \in CommandIds, p \in CommandPatches : PatchCommand(id, p)
  \/ \E id \in CommandIds : DeleteCommand(id)

SpecRegistry == InitLogs /\ [][NextRegistry]_vars

\* ------------------------------------------------------------------ C24
\* The names loadCommands registers.
ShippedNames == { Commands[i].name : i \in DOMAIN Commands }

\* The names the registry resolves to a handler.
Registered == { e.name : e \in commands }

TicksPerDay == 2

\* The number of days of the activity chart, and the limit of its select.
ActivityDays == 14
AnalyticsLimit == 1000

\* date.toISOString().split('T')[0]: the calendar day of a time.
DateString(t) == t \div TicksPerDay

\* twoWeeksAgo: setDate(getDate() - 14) keeps the time of day.
TwoWeeksAgo(now) == now - ActivityDays * TicksPerDay

\* The dates of the entries of userActivityData: twoWeeksAgo plus 0 .. 13
\* days.
ActivityDates(now) ==
  [ i \in 1 .. ActivityDays |->
      DateString(TwoWeeksAgo(now) + (i - 1) * TicksPerDay) ]

\* userActivityData.findIndex(d => d.date === dateString), 0 for -1.
FindIndex(dates, date) ==
  IF \E i \in DOMAIN dates : dates[i] = date
  THEN CHOOSE i \in DOMAIN dates :
         dates[i] = date /\ \A j \in DOMAIN dates : dates[j] = date => i <= j
  ELSE 0

\* "Count commands per day": the commands of every entry after the loop.
UserActivity(logs, now) ==
  [ i \in 1 .. ActivityDays |->
      Cardinality({ k \in DOMAIN logs :
                      /\ logs[k].timestamp >= TwoWeeksAgo(now)
                      /\ FindIndex(ActivityDates(now),
                                   DateString(logs[k].timestamp)) = i }) ]

\* Times at which GET /api/analytics is asked: on the day of the last
\* possible row, a day later, two weeks later and the day after that.
Nows == { MaxTime + k * TicksPerDay : k \in { 0, 1, ActivityDays, ActivityDays + 1 } }

\* GET /api/analytics up to its await; now is the time of the server.
GetAnalytics(r, now) ==
  /\ Arrives(r)
  /\ now >= clock
  /\ req' = [ req EXCEPT ![r] =
       [ @ EXCEPT !.route = "analytics", !.pc = "analyticsSelect", !.now = now ] ]
  /\ UNCHANGED << botVars, storeVars, disp, lookups, replies, platformVars >>

\* GET /api/analytics, storage.getCommandLogs(1000) resolves: the activity
\* chart is computed and sent.
AnalyticsSelected(r) ==
  /\ req[r].pc = "analyticsSelect"
  /\ \E rows \in GetCommandLogs(AnalyticsLimit) :
       req' = [ req EXCEPT ![r] =
         [ @ EXCEPT !.pc = "done", !.status = 200, !.logs = rows,
             !.activity = UserActivity(rows, req[r].now) ] ]
  /\ UNCHANGED << botVars, storeVars, disp, lookups, replies, platformVars >>

NextAnalytics ==
  \/ Boot
  \/ \E r \in Reqs :
       \/ \E now \in Nows : GetAnalytics(r, now)
       \/ AnalyticsSelected(r)

SpecAnalytics == InitLogsRead /\ [][NextAnalytics]_vars

\* ------------------------------------------------------------------ C25
RECURSIVE Sum(_)
Sum(counts) == IF counts = <<>> THEN 0 ELSE Head(counts) + Sum(Tail(counts))

\* The retrieved rows of request r stamped within the last 14 days, up to
\* and including the day of the request.
RecentRows(r) ==
  { k \in DOMAIN req[r].logs :
      /\ req[r].logs[k].timestamp >= TwoWeeksAgo(req[r].now)
      /\ req[r].logs[k].timestamp <= req[r].now }

\* C25: the 14 daily counts of the activity chart sum to the number of
\* retrieved rows stamped within the last 14 days: each such row is counted
\* in exactly one entry.
C25_EveryRecentRowCounted ==
  \A r \in Reqs :
    ( req[r].pc = "done" /\ req[r].route = "analytics" )
    => Sum(req[r].activity) = Cardinality(RecentRows(r))

\* ------------------------------------------------------------------ C26
\* C26: the error row of a message whose handler threw carries the command
\* string (prefix + name) of the audit row written for that message before
\* the execution, also when a PATCH /api/settings changed the prefix while
\* the handler was suspended.
C26_ErrorRowMatchesAuditRow ==
  \A d \in Msgs :
    \A i \in AuditRowsOf(d), j \in ErrorRowsOf(d) :
      commandLogs[j].command = commandLogs[i].command

\* ------------------------------------------------- concurrent prefix changes
\* Request bodies that carry two different prefixes.
RacePrefixes ==
  { Partial({ "prefix" }, [ ColumnDefaults EXCEPT !.prefix = <<"?">> ]),
    Partial({ "prefix" }, [ ColumnDefaults EXCEPT !.prefix = <<"$">> ]) }

\* Concurrent PATCH /api/settings requests that change the prefix.
NextPrefixRace ==
  \/ Boot
  \/ \E r \in Reqs :
       \/ \E body \in RacePrefixes : PatchSettings(r, body, TRUE)
       \/ StoreSteps(r)
       \/ PrefixSteps(r)

SpecPrefixRace == InitProfile /\ [][NextPrefixRace]_vars

\* ------------------------------------------------------------------ C27
\* Every request has been answered, each a PATCH /api/settings that changed
\* the prefix.
AllPrefixPatchesDone ==
  \A r \in Reqs :
    /\ req[r].pc = "done"
    /\ req[r].route = "patch"
    /\ req[r].status = 200
    /\ TruthyPrefix(req[r].body)

\* C27: once concurrent PATCH /api/settings requests with different
\* prefixes have all completed, the prefix of the dispatcher (and of the
\* presence text) is the prefix the Settings Store holds.
C27_SameWinnerInBothPlaces ==
  AllPrefixPatchesDone
  => /\ botSettings # <<>>
     /\ \A i \in DOMAIN botSettings : botSettings[i].prefix = commandPrefix
     /\ client => presence = commandPrefix \o <<"h", "e", "l", "p">>

\* --------------------------------------------------- concurrent name changes
\* Request bodies that carry two different bot names.
RaceNames ==
  { Partial({ "botName" }, [ ColumnDefaults EXCEPT !.botName = "Alpha" ]),
    Partial({ "botName" }, [ ColumnDefaults EXCEPT !.botName = "Beta" ]) }

\* Concurrent PATCH /api/settings requests that change the bot name, with a
\* platform that accepts every call.
NextNameRace ==
  \/ Boot
  \/ \E r \in Reqs :
       \/ \E body \in RaceNames : PatchSettings(r, body, TRUE)
       \/ StoreSteps(r)
       \/ SetUsernameResolves(r)
       \/ \E g \in Guilds : NicknameSettles(r, g, TRUE)
       \/ ProfileAfterPersist(r)

SpecNameRace == InitProfile /\ [][NextNameRace]_vars

\* ------------------------------------------------------------------ C28
\* Every request has been answered, each a PATCH /api/settings whose bot
\* name the platform accepted.
AllNamePatchesDone ==
  \A r \in Reqs :
    /\ req[r].pc = "done"
    /\ req[r].route = "patch"
    /\ Truthy(req[r].body, "botName")
    /\ req[r].success = "true"

\* C28: once two concurrent PATCH /api/settings requests with different bot
\* names have completed and every platform call succeeded, the botName the
\* Settings Store holds is the username live on the platform.
C28_StoredNameIsLiveName ==
  AllNamePatchesDone
  => /\ botSettings # <<>>
     /\ \A i \in DOMAIN botSettings : botSettings[i].botName = username

\* ------------------------------------------------------------------ C29
\* C29: every call of updateBotProfile is made for a request that passed
\* the admin check (`admin` is set by the ensureAdmin middleware of the
\* route, and stays false for a route registered without it).
C29_ProfileCallsAreAdminOnly ==
  \A r \in Reqs : req[r].called => req[r].admin

\* --------------------------------------------------------------- status
\* GET /api/status up to its await: 503 without a logged-in client, else the
\* select of the command logs with the default limit.
GetStatus(r) ==
  /\ Arrives(r)
  /\ req' = [ req EXCEPT ![r] =
       IF ~client THEN Fails([ @ EXCEPT !.route = "status" ], 503)
       ELSE [ @ EXCEPT !.route = "status", !.pc = "statusSelect" ] ]
  /\ UNCHANGED << botVars, storeVars, disp, lookups, replies, platformVars >>

\* The number of rows a select with LIMIT limit returns.
LimitedCount(limit) ==
  IF Len(commandLogs) <= limit THEN Len(commandLogs) ELSE limit

\* GET /api/status, storage.getCommandLogs() resolves: commandCount is the
\* length of the result.
StatusSelected(r) ==
  /\ req[r].pc = "statusSelect"
  /\ req' = [ req EXCEPT ![r] =
       [ @ EXCEPT !.pc = "done", !.status = 200,
           !.commandCount = LimitedCount(DefaultLimit) ] ]
  /\ UNCHANGED << botVars, storeVars, disp, lookups, replies, platformVars >>

\* A command_logs table of n rows written one after the other.
LongLog(n) ==
  [ i \in 1 .. n |->
      [ id |-> i, timestamp |-> i, userId |-> ApiUser,
        command |-> ApiEntry.command, isError |-> FALSE, isWarning |-> FALSE,
        kind |-> "api", detail |-> "" ] ]

\* Sizes of the table when the server starts: empty, and around the default
\* limit of getCommandLogs.
LogSizes == { 0, DefaultLimit - 1, DefaultLimit, DefaultLimit + 1 }

\* The listener without failures next to GET /api/status.
NextStatus ==
  \/ Boot
  \/ \E d \in Msgs :
       \/ \E c \in LogContents : MessageCreate(d, [ bot |-> FALSE, content |-> c ])
       \/ AuditLogged(d)
       \/ NotFoundSettings(d)
       \/ Replied(d)
       \/ HandlerReturns(d)
  \/ \E r \in Reqs :
       \/ GetStatus(r)
       \/ StatusSelected(r)

InitStatus ==
  \E n \in LogSizes :
    InitTables(<< DefaultSettings @@ [ id |-> 1 ] >>, Commands, LongLog(n))

SpecStatus == InitStatus /\ [][NextStatus]_vars

\* ------------------------------------------------------------------ C30
\* C30: the commandCount GET /api/status answers with while the bot is
\* connected is the number of rows the command_logs table holds, however
\* many they are.
C30_CommandCountIsRowCount ==
  [][ \A r \in Reqs :
        ( req[r].pc = "statusSelect" /\ req'[r].pc = "done" )
        => req'[r].commandCount = Len(commandLogs) ]_vars

====
